---- MODULE Spec2Model ----
(***************************************************************************)
(* A model of neighbor's SystemdSource (data/sources/systemd/              *)
(* systemd_source.py): the start / poll / stop lifecycle, the background   *)
(* history scan (supervisor thread + worker pool + bounded queue) and the  *)
(* live journal reader with its persisted cursor.                          *)
(*                                                                         *)
(* The journal is the external append-only log.  An entry is a record      *)
(* [ts, msg]: its __REALTIME_TIMESTAMP in microseconds and whether its     *)
(* MESSAGE is non-empty.  An entry is identified by its index in the       *)
(* journal; the index also stands for the entry's __CURSOR token, and for  *)
(* the LogEvent built from it.  0 stands for None / the empty string.      *)
(*                                                                         *)
(* Reader semantics (systemd.journal.Reader over sd_journal):              *)
(*   seek_tail(); get_previous()   current entry = the last entry, the     *)
(*                                 iteration then yields what follows it;  *)
(*   seek_cursor(c)                the next get_next() yields the entry    *)
(*                                 c itself (sd_journal_seek_cursor does   *)
(*                                 not skip the entry it seeks to);        *)
(*   seek_realtime(t)              the iteration starts at the first entry *)
(*                                 with timestamp >= t;                    *)
(*   iteration                     yields the entries available now and    *)
(*                                 stops, it never waits.                  *)
(***************************************************************************)
EXTENDS Integers, Sequences, FiniteSets, TLC

VARIABLES
    journal,         \* the system journal: Seq([ts, msg])
    cursor_file,     \* content of cursor_path (0: no file, or an empty one)
    cpu_count,       \* self.cpu_count
    time_period,     \* constructor argument: "all" | "now"
    state,           \* call protocol: "created" | "started" | "stopped"
    journal_open,    \* self.journal is not None
    read_pos,        \* live reader: index of its current entry
    cursor,          \* self.cursor
    history_queue,   \* self.history_queue
    history_done,    \* self.history_done
    sup_pc,          \* supervisor thread: "none" | "begin" | "collect" | "put" | "exit"
    chunks,          \* chunk_args of the running scan
    chunk_todo,      \* chunk tasks not yet completed by a worker
    pool_results,    \* completed task results the supervisor has not consumed
    cur_res,         \* events of the result being pushed that are not pushed yet
    scan_args,       \* (scan_start, scan_end) handed to the supervisor thread
    start_len,       \* ghost: Len(journal) when start() ran
    start_cursor,    \* ghost: self.cursor when start() returned
    start_pos,       \* ghost: read_pos when start() returned
    ret_hist,        \* ghost: events poll() returned from the queue, this lifetime
    ret_live,        \* ghost: events poll() returned from the live reader, this lifetime
    prev_live,       \* ghost: events live polls returned in earlier lifetimes
    lifetime,        \* ghost: number of the process lifetime
    appends_left,    \* ghost: entries the journal daemon may still append
    faults,          \* ghost: seeks that failed in this lifetime ("seek", "cursor")
    failed_chunks,   \* ghost: chunk tasks whose seek_realtime failed
    priorities,      \* PRIORITY fields handed to _map_priority_to_severity
    severities       \* what it returned for them, in the same order

vars == << journal, cursor_file, cpu_count, time_period, state, journal_open,
           read_pos, cursor, history_queue, history_done, sup_pc, chunks,
           chunk_todo, pool_results, cur_res, scan_args, start_len, start_cursor, start_pos,
           ret_hist, ret_live, prev_live, lifetime, appends_left, faults,
           failed_chunks, priorities, severities >>

---------------------------------------------------------------------------
(* Bounds of the model *)
MaxHist == 3        \* entries in the journal at Init
MaxAppend == 1      \* entries appended during a run of Spec
MaxCpu == 2         \* cpu_count is in 0..MaxCpu
MaxLifetimes == 2   \* process lifetimes of SpecRestart (stop, then a new process)
RestartHist == 1    \* entries in the journal at Init of SpecRestart
RestartAppend == 1  \* entries appended during a run of SpecRestart
BulkLen == 201      \* entries of the large history of SpecBulk
BulkAppend == 1     \* entries appended during a run of SpecBulk or SpecBatch
BatchLen == 102     \* entries of the history of SpecBatch: more than one poll() drains
MaxPlanTick == 14   \* SpecPlanner: times are k half seconds, k in 0..MaxPlanTick
PlanMaxCpu == 3     \* SpecPlanner: cpu_count is in 0..PlanMaxCpu
MaxPriorities == 2  \* SpecSeverity: entries whose PRIORITY is mapped
BackfillHist == 2   \* entries of the small histories of SpecBackfill

(* Program constants *)
Second == 1000000           \* datetime / timedelta count microseconds
QueueMaxSize == 200         \* queue.Queue(maxsize=200)
HISTORY_BATCH_SIZE == 100
ChunkMinSeconds == 5        \* total_duration <= 5
MaxPriority == 7            \* systemd priority (0-7)

None == 0

Min(a, b) == IF a <= b THEN a ELSE b

Range(s) == { s[i] : i \in 1..Len(s) }

(* poll results: events tagged with the path they came by *)
Tag(src, evs) == [ i \in 1..Len(evs) |-> [src |-> src, ev |-> evs[i]] ]

Untag(r) == [ i \in 1..Len(r) |-> r[i].ev ]

HistOf(r) == Untag(SelectSeq(r, LAMBDA x : x.src = "hist"))

LiveOf(r) == Untag(SelectSeq(r, LAMBDA x : x.src = "live"))

(* Timestamps lie on a grid of TickSeconds: one tick apart is a range that is *)
(* not chunked, two ticks apart is one that is                               *)
TickSeconds == (ChunkMinSeconds + 1) \div 2
MaxTick == MaxHist - 1
Timestamps == { k * TickSeconds * Second : k \in 0..MaxTick }

---------------------------------------------------------------------------
(* _entry_to_dict: an entry without MESSAGE gives no event *)
EntryToDict(j, i) == IF j[i].msg THEN i ELSE None

(* the events of entries lo..hi, in journal order, skipping None *)
EventsOf(j, lo, hi) ==
    IF lo > hi THEN << >>
    ELSE SelectSeq([ k \in 1..(hi - lo + 1) |-> EntryToDict(j, lo + k - 1) ],
                   LAMBDA e : e # None)

(* SystemdSource.__init__ : self.cpu_count *)
CpuCount(alloc) == IF alloc > 0 THEN alloc ELSE 1

(* _get_scan_range: <<start, end>>, with -1 for None (0 is a timestamp) *)
NoTime == 0 - 1

(* datetime.now(), the end of the range of an empty journal *)
WallClock == MaxTick * TickSeconds * Second

(* mutant: in NOW mode the range starts at the head of the journal, as in ALL mode *)
GetScanRangeNowFromHead(j, period) ==
    LET abs_end == IF Len(j) > 0 THEN j[Len(j)].ts ELSE WallClock
    IN  CASE period = "all" -> << IF Len(j) > 0 THEN j[1].ts ELSE NoTime, abs_end >>
          [] period = "now" -> << IF Len(j) > 0 THEN j[1].ts ELSE NoTime, abs_end >>
          [] OTHER -> << NoTime, NoTime >>

(* _get_scan_range *)
GetScanRange(j, period) ==
    LET abs_end == IF Len(j) > 0 THEN j[Len(j)].ts ELSE WallClock
    IN  CASE period = "all" -> << IF Len(j) > 0 THEN j[1].ts ELSE NoTime, abs_end >>
          [] period = "now" -> << IF Len(j) > 0 THEN j[Len(j)].ts ELSE NoTime, abs_end >>
          [] OTHER -> << NoTime, NoTime >>
(* mutant: the check of scan_start is dropped *)
RangeValidNoStartCheck(r) == r[2] # NoTime /\ r[1] < r[2]

(* start(): scan_start and scan_end and scan_start < scan_end *)
RangeValid(r) == r[1] # NoTime /\ r[2] # NoTime /\ r[1] < r[2]

(* timedelta(seconds=d / n): d microseconds over n, rounded half to even *)
RoundDiv(d, n) ==
    LET q == d \div n
        r2 == 2 * (d % n)
    IN  IF r2 < n THEN q
        ELSE IF r2 > n THEN q + 1
        ELSE IF q % 2 = 0 THEN q ELSE q + 1
(* mutant: a range of exactly five seconds is chunked *)
CreateTimeChunksStrict(start_time, end_time, n) ==
    LET total_duration == end_time - start_time
        chunk_size == RoundDiv(total_duration, n)
    IN  IF total_duration < ChunkMinSeconds * Second
        THEN << << start_time, end_time >> >>
        ELSE [ i \in 1..n |->
                 << start_time + (i - 1) * chunk_size,
                    IF i = n THEN end_time + Second
                             ELSE start_time + i * chunk_size >> ]

(* mutant: the last chunk ends at end_time, without the second added *)
CreateTimeChunksNoExtend(start_time, end_time, n) ==
    LET total_duration == end_time - start_time
        chunk_size == RoundDiv(total_duration, n)
    IN  IF total_duration <= ChunkMinSeconds * Second
        THEN << << start_time, end_time >> >>
        ELSE [ i \in 1..n |->
                 << start_time + (i - 1) * chunk_size,
                    IF i = n THEN end_time
                             ELSE start_time + i * chunk_size >> ]

(* _create_time_chunks *)
CreateTimeChunks(start_time, end_time, n) ==
    LET total_duration == end_time - start_time
        chunk_size == RoundDiv(total_duration, n)
    IN  IF total_duration <= ChunkMinSeconds * Second
        THEN << << start_time, end_time >> >>
        ELSE [ i \in 1..n |->
                 << start_time + (i - 1) * chunk_size,
                    IF i = n THEN end_time + Second
                             ELSE start_time + i * chunk_size >> ]

(* process_log_chunk, after a successful seek: from the first entry with      *)
(* timestamp >= start_time, up to (not including) the first one > end_time    *)
ChunkBreak(ts, end_time) == ts > end_time

ProcessLogChunk(j, chunk) ==
    LET from == { i \in 1..Len(j) : j[i].ts >= chunk[1] }
        first == IF from = {} THEN Len(j) + 1
                 ELSE CHOOSE i \in from : \A k \in from : i <= k
        over == { i \in first..Len(j) : ChunkBreak(j[i].ts, chunk[2]) }
        stop == IF over = {} THEN Len(j) + 1
                ELSE CHOOSE i \in over : \A k \in over : i <= k
    IN  EventsOf(j, first, stop - 1)

---------------------------------------------------------------------------
(* Initial journals: timestamps never decrease *)
RECURSIVE JournalsOfLen(_)
JournalsOfLen(n) ==
    IF n = 0 THEN { << >> }
    ELSE { Append(j, [ts |-> t, msg |-> m]) :
             j \in JournalsOfLen(n - 1), t \in Timestamps, m \in BOOLEAN }

Sorted(j) == \A i \in 1..(Len(j) - 1) : j[i].ts <= j[i + 1].ts

(* the first entry's timestamp is the origin of time *)
JournalsUpTo(n) ==
    UNION { { j \in JournalsOfLen(k) : Sorted(j) /\ (k > 0 => j[1].ts = 0) } :
            k \in 0..n }

InitJournals == JournalsUpTo(MaxHist)

(* _map_priority_to_severity has not been called *)
NoSeverityCall ==
    /\ priorities = << >>
    /\ severities = << >>

(* what __init__ sets, and the ghosts of a fresh lifetime *)
Constructed ==
    /\ state = "created"
    /\ journal_open = FALSE
    /\ read_pos = 0
    /\ cursor = None
    /\ history_queue = << >>
    /\ history_done = FALSE
    /\ sup_pc = "none"
    /\ chunks = << >>
    /\ chunk_todo = {}
    /\ pool_results = << >>
    /\ cur_res = << >>
    /\ scan_args = << >>
    /\ start_len = 0
    /\ start_cursor = None
    /\ start_pos = 0
    /\ ret_hist = << >>
    /\ ret_live = << >>
    /\ faults = {}
    /\ failed_chunks = {}

Init ==
    /\ journal \in InitJournals
    /\ cursor_file = None
    /\ cpu_count \in { CpuCount(alloc) : alloc \in 0..MaxCpu }
    /\ time_period \in { "all", "now" }
    /\ Constructed
    /\ NoSeverityCall
    /\ prev_live = {}
    /\ lifetime = 1
    /\ appends_left = MaxAppend

---------------------------------------------------------------------------
(* The journal daemon appends an entry; timestamps never decrease *)
JournalAppend ==
    /\ appends_left > 0
    /\ \E t \in Timestamps, m \in BOOLEAN :
         /\ Len(journal) > 0 => t >= journal[Len(journal)].ts
         /\ journal' = Append(journal, [ts |-> t, msg |-> m])
    /\ appends_left' = appends_left - 1
    /\ UNCHANGED << cursor_file, cpu_count, time_period, priorities, severities, failed_chunks, state, journal_open,
                    read_pos, cursor, history_queue, history_done, sup_pc, chunks,
                    chunk_todo, pool_results, cur_res, scan_args, start_len,
                    start_cursor, start_pos, ret_hist, ret_live, prev_live,
                    lifetime, faults >>

(* _load_cursor: the file's content, None when there is no file *)
LoadCursor(file) == file

(* reader.seek_cursor(c): the reader's position afterwards.  The iteration   *)
(* that follows yields the entry of the cursor first, then what follows it  *)
SeekCursorPos(c) == c - 1

(* mutant: the fallback to the tail does not record the tail's cursor *)
InitializeJournalPositionNoBaseline(j, cur, seek_ok) ==
    IF cur # None /\ seek_ok
    THEN [cursor |-> cur, pos |-> SeekCursorPos(cur)]
    ELSE [cursor |-> cur, pos |-> Len(j)]

(* _initialize_journal_position: [cursor, pos] after positioning the reader.  *)
(* seek_ok: whether reader.seek_cursor succeeds                               *)
InitializeJournalPosition(j, cur, seek_ok) ==
    IF cur # None /\ seek_ok
    THEN [cursor |-> cur, pos |-> SeekCursorPos(cur)]
    ELSE \* seek_tail(); last = get_previous(); if last: cursor = last.__CURSOR
         [cursor |-> IF Len(j) > 0 THEN Len(j) ELSE cur, pos |-> Len(j)]

(* start() *)
StartWith(seek_ok) ==
    LET loaded == LoadCursor(cursor_file)
        range == GetScanRange(journal, time_period)
        placed == InitializeJournalPosition(journal, loaded, seek_ok)
    IN  /\ state = "created"
        /\ seek_ok \/ loaded # None
        /\ state' = "started"
        /\ journal_open' = TRUE
        /\ cursor' = placed.cursor
        /\ read_pos' = placed.pos
        /\ IF RangeValid(range)
           THEN /\ sup_pc' = "begin"
                /\ scan_args' = range
                /\ UNCHANGED history_done
           ELSE /\ history_done' = TRUE
                /\ UNCHANGED << sup_pc, scan_args >>
        /\ start_len' = Len(journal)
        /\ start_cursor' = placed.cursor
        /\ start_pos' = placed.pos
        /\ faults' = IF seek_ok THEN faults ELSE faults \cup { "cursor" }
        /\ UNCHANGED << journal, cursor_file, cpu_count, time_period, priorities, severities, failed_chunks,
                        history_queue, chunks, chunk_todo, pool_results, cur_res,
                        ret_hist, ret_live, prev_live, lifetime, appends_left >>

Start == StartWith(TRUE)

StartSeekCursorFails == StartWith(FALSE)

(* _scan_history_background, up to the creation of the pool *)
SupBegin ==
    /\ sup_pc = "begin"
    /\ IF ~RangeValid(scan_args)
       THEN /\ history_done' = TRUE
            /\ sup_pc' = "exit"
            /\ UNCHANGED << chunks, chunk_todo >>
       ELSE /\ chunks' = CreateTimeChunks(scan_args[1], scan_args[2],
                                          cpu_count)
            /\ chunk_todo' = 1..Len(chunks')
            /\ sup_pc' = "collect"
            /\ UNCHANGED history_done
    /\ UNCHANGED << journal, cursor_file, cpu_count, time_period, priorities, severities, failed_chunks, state,
                    journal_open, read_pos, cursor, history_queue, pool_results,
                    cur_res, scan_args, start_len, start_cursor, start_pos, ret_hist, ret_live,
                    prev_live, lifetime, appends_left, faults >>

(* mutant: no finally clause, the failed supervisor leaves history_done as it was *)
SupPoolFailsNoFinally ==
    /\ sup_pc = "begin"
    /\ RangeValid(scan_args)
    /\ sup_pc' = "exit"
    /\ UNCHANGED << journal, cursor_file, cpu_count, time_period, priorities, severities, failed_chunks,
                    state, journal_open, read_pos, cursor, history_queue, history_done,
                    chunks, chunk_todo, pool_results, cur_res, scan_args, start_len,
                    start_cursor, start_pos, ret_hist, ret_live, prev_live, lifetime,
                    appends_left, faults >>

(* multiprocessing.Pool(...) raises: except ... finally: history_done = True *)
SupPoolFails ==
    /\ sup_pc = "begin"
    /\ RangeValid(scan_args)
    /\ history_done' = TRUE
    /\ sup_pc' = "exit"
    /\ UNCHANGED << journal, cursor_file, cpu_count, time_period, priorities, severities, failed_chunks, state,
                    journal_open, read_pos, cursor, history_queue, chunks, chunk_todo,
                    pool_results, cur_res, scan_args, start_len, start_cursor,
                    start_pos, ret_hist, ret_live, prev_live, lifetime, appends_left, faults >>

(* mutant: the task iterates the live reader instead of a reader of its own, *)
(* and leaves it at the end of the journal                                   *)
WorkerWithSharedReader(i, seek_ok) ==
    /\ sup_pc \in { "collect", "put" }
    /\ i \in chunk_todo
    /\ chunk_todo' = chunk_todo \ { i }
    /\ pool_results' = Append(pool_results,
                              IF seek_ok THEN ProcessLogChunk(journal, chunks[i])
                                         ELSE << >>)
    /\ read_pos' = IF seek_ok THEN Len(journal) ELSE read_pos
    /\ faults' = IF seek_ok THEN faults ELSE faults \cup { "seek" }
    /\ failed_chunks' = IF seek_ok THEN failed_chunks ELSE failed_chunks \cup { i }
    /\ UNCHANGED << journal, cursor_file, cpu_count, time_period, priorities, severities,
                    state, journal_open, cursor, history_queue, history_done,
                    sup_pc, chunks, cur_res, scan_args, start_len, start_cursor,
                    start_pos, ret_hist, ret_live, prev_live, lifetime, appends_left >>

(* a pool worker runs process_log_chunk on chunk i; seek_ok: seek_realtime works *)
WorkerWith(i, seek_ok) ==
    /\ sup_pc \in { "collect", "put" }
    /\ i \in chunk_todo
    /\ chunk_todo' = chunk_todo \ { i }
    /\ pool_results' = Append(pool_results,
                              IF seek_ok THEN ProcessLogChunk(journal, chunks[i])
                                         ELSE << >>)
    /\ faults' = IF seek_ok THEN faults ELSE faults \cup { "seek" }
    /\ failed_chunks' = IF seek_ok THEN failed_chunks ELSE failed_chunks \cup { i }
    /\ UNCHANGED << journal, cursor_file, cpu_count, time_period, priorities, severities, state,
                    journal_open, read_pos, cursor, history_queue, history_done,
                    sup_pc, chunks, cur_res, scan_args, start_len, start_cursor,
                    start_pos, ret_hist, ret_live, prev_live, lifetime, appends_left >>

Worker == \E i \in chunk_todo : WorkerWith(i, TRUE)

(* mutant: the failed seek raises out of the task and the pool gives up: the *)
(* results of the other tasks are dropped                                    *)
WorkerSeekFailsAbandons ==
    \E i \in chunk_todo :
        /\ sup_pc \in { "collect", "put" }
        /\ chunk_todo' = {}
        /\ pool_results' = << >>
        /\ faults' = faults \cup { "seek" }
        /\ failed_chunks' = failed_chunks \cup { i }
        /\ UNCHANGED << journal, cursor_file, cpu_count, time_period, priorities,
                        severities, state, journal_open, read_pos, cursor,
                        history_queue, history_done, sup_pc, chunks, cur_res,
                        scan_args, start_len, start_cursor, start_pos, ret_hist,
                        ret_live, prev_live, lifetime, appends_left >>

WorkerSeekFails == \E i \in chunk_todo : WorkerWith(i, FALSE)

(* mutant: history_done is set when the last result is taken, before its    *)
(* events are pushed                                                         *)
SupTakeMarksDone ==
    /\ sup_pc = "collect"
    /\ pool_results # << >>
    /\ cur_res' = Head(pool_results)
    /\ pool_results' = Tail(pool_results)
    /\ sup_pc' = IF cur_res' = << >> THEN "collect" ELSE "put"
    /\ history_done' = (chunk_todo = {} /\ pool_results' = << >>)
    /\ UNCHANGED << journal, cursor_file, cpu_count, time_period, priorities, severities, failed_chunks,
                    state, journal_open, read_pos, cursor, history_queue, chunks,
                    chunk_todo, scan_args, start_len, start_cursor, start_pos, ret_hist,
                    ret_live, prev_live, lifetime, appends_left, faults >>

(* for chunk_res in pool.imap_unordered(...): the next completed result *)
SupTake ==
    /\ sup_pc = "collect"
    /\ pool_results # << >>
    /\ cur_res' = Head(pool_results)
    /\ pool_results' = Tail(pool_results)
    /\ sup_pc' = IF cur_res' = << >> THEN "collect" ELSE "put"
    /\ UNCHANGED << journal, cursor_file, cpu_count, time_period, priorities, severities, failed_chunks, state,
                    journal_open, read_pos, cursor, history_queue, history_done,
                    chunks, chunk_todo, scan_args, start_len, start_cursor,
                    start_pos, ret_hist, ret_live, prev_live, lifetime, appends_left,
                    faults >>
(* mutant: a queue that lets one more event in *)
QueueFullOffByOne(q) == Len(q) > QueueMaxSize

(* queue.Queue.put blocks while the queue is full *)
QueueFull(q) == Len(q) >= QueueMaxSize

(* self.history_queue.put of one LogEvent *)
SupPut ==
    /\ sup_pc = "put"
    /\ ~QueueFull(history_queue)
    /\ history_queue' = Append(history_queue, Head(cur_res))
    /\ cur_res' = Tail(cur_res)
    /\ sup_pc' = IF cur_res' = << >> THEN "collect" ELSE "put"
    /\ UNCHANGED << journal, cursor_file, cpu_count, time_period, priorities, severities, failed_chunks, state,
                    journal_open, read_pos, cursor, history_done, chunks, chunk_todo,
                    pool_results, scan_args, start_len, start_cursor, start_pos,
                    ret_hist, ret_live, prev_live, lifetime, appends_left, faults >>

(* every task's result is consumed: finally: history_done = True *)
SupFinish ==
    /\ sup_pc = "collect"
    /\ chunk_todo = {}
    /\ pool_results = << >>
    /\ history_done' = TRUE
    /\ sup_pc' = "exit"
    /\ UNCHANGED << journal, cursor_file, cpu_count, time_period, priorities, severities, failed_chunks, state,
                    journal_open, read_pos, cursor, history_queue, chunks, chunk_todo,
                    pool_results, cur_res, scan_args, start_len, start_cursor,
                    start_pos, ret_hist, ret_live, prev_live, lifetime, appends_left,
                    faults >>
(* mutant: a drain without the batch limit *)
DrainCountAll(q) == Len(q)

(* poll(): the drain of the history queue *)
DrainCount(q) == Min(HISTORY_BATCH_SIZE, Len(q))

PollDrain(q) == SubSeq(q, 1, DrainCount(q))

(* poll(): for entry in self.journal, from the reader's position *)
PollLive(j, pos) == EventsOf(j, pos + 1, Len(j))

(* mutant: the cursor follows every entry iterated, event or not *)
PollCursorLastIterated(j, pos, cur) == IF pos < Len(j) THEN Len(j) ELSE cur

(* poll(): self.cursor after the loop over the live entries *)
PollCursor(j, pos, cur) ==
    LET evs == PollLive(j, pos)
    IN  IF evs = << >> THEN cur ELSE evs[Len(evs)]

(* poll(): the list it returns, each event tagged with the path it came by: *)
(* "hist" (from the queue) or "live" (from the reader)                       *)
PollResult(q, open, j, pos) ==
    Tag("hist", PollDrain(q)) \o (IF open THEN Tag("live", PollLive(j, pos)) ELSE << >>)

(* poll() *)
Poll ==
    /\ history_queue' = SubSeq(history_queue, DrainCount(history_queue) + 1,
                               Len(history_queue))
    /\ ret_hist' = ret_hist \o
                      HistOf(PollResult(history_queue, journal_open, journal, read_pos))
    /\ ret_live' = ret_live \o
                      LiveOf(PollResult(history_queue, journal_open, journal, read_pos))
    /\ IF journal_open
       THEN /\ cursor' = PollCursor(journal, read_pos, cursor)
            /\ read_pos' = Len(journal)
       ELSE UNCHANGED << cursor, read_pos >>
    /\ UNCHANGED << journal, cursor_file, cpu_count, time_period, priorities, severities, failed_chunks, state,
                    journal_open, history_done, sup_pc, chunks, chunk_todo,
                    pool_results, cur_res, scan_args, start_len, start_cursor,
                    start_pos, prev_live, lifetime, appends_left, faults >>
(* mutant: the reader's position is saved instead of self.cursor *)
WriteCursorFromReader(file, cur, outcome) ==
    IF cur = None THEN file
    ELSE CASE outcome = "ok" -> read_pos
           [] outcome = "open" -> file
           [] OTHER -> None

(* stop(): the checkpoint after open(cursor_path, 'w') / f.write(cursor).      *)
(* outcome: "ok", "open" (open raises: the file is as it was) or "write"      *)
(* (write raises after open truncated the file)                               *)
WriteCursor(file, cur, outcome) ==
    IF cur = None THEN file
    ELSE CASE outcome = "ok" -> cur
           [] outcome = "open" -> file
           [] OTHER -> None

StopWith(outcome) ==
    /\ state = "started"
    /\ outcome = "ok" \/ cursor # None
    /\ cursor_file' = WriteCursor(cursor_file, cursor, outcome)
    /\ journal_open' = FALSE
    /\ read_pos' = 0
    /\ state' = "stopped"
    /\ UNCHANGED << journal, cpu_count, time_period, priorities, severities, failed_chunks, cursor, history_queue,
                    history_done, sup_pc, chunks, chunk_todo, pool_results, cur_res,
                    scan_args, start_len, start_cursor, start_pos, ret_hist, ret_live,
                    prev_live, lifetime, appends_left, faults >>

Stop == StopWith("ok")

StopWriteFails == \E outcome \in { "open", "write" } : StopWith(outcome)

(* the process ends (its daemon supervisor thread with it) and a new process  *)
(* constructs a SystemdSource with the same arguments                         *)
NewLifetime ==
    /\ state = "stopped"
    /\ lifetime < MaxLifetimes
    /\ state' = "created"
    /\ journal_open' = FALSE
    /\ read_pos' = 0
    /\ cursor' = None
    /\ history_queue' = << >>
    /\ history_done' = FALSE
    /\ sup_pc' = "none"
    /\ chunks' = << >>
    /\ chunk_todo' = {}
    /\ pool_results' = << >>
    /\ cur_res' = << >>
    /\ scan_args' = << >>
    /\ start_len' = 0
    /\ start_cursor' = None
    /\ start_pos' = 0
    /\ ret_hist' = << >>
    /\ ret_live' = << >>
    /\ faults' = {}
    /\ failed_chunks' = {}
    /\ prev_live' = prev_live \cup Range(ret_live)
    /\ lifetime' = lifetime + 1
    /\ UNCHANGED << journal, cursor_file, cpu_count, time_period, priorities, severities, failed_chunks, appends_left >>

Next ==
    \/ JournalAppend
    \/ Start
    \/ SupBegin
    \/ SupPoolFails
    \/ Worker
    \/ WorkerSeekFails
    \/ SupTake
    \/ SupPut
    \/ SupFinish
    \/ Poll
    \/ Stop
    \/ StopWriteFails

(* one lifetime of one SystemdSource *)
Spec == Init /\ [][Next]_vars

---------------------------------------------------------------------------
(* Several lifetimes over one journal and one checkpoint file *)
InitRestart ==
    /\ journal \in JournalsUpTo(RestartHist)
    /\ cursor_file = None
    /\ cpu_count = CpuCount(0)
    /\ time_period \in { "all", "now" }
    /\ Constructed
    /\ NoSeverityCall
    /\ prev_live = {}
    /\ lifetime = 1
    /\ appends_left = RestartAppend

NextRestart ==
    \/ Next
    \/ StartSeekCursorFails
    \/ NewLifetime

SpecRestart == InitRestart /\ [][NextRestart]_vars

---------------------------------------------------------------------------
(* A single lifetime over a large history: more events than the queue holds *)
BulkJournalOf(n) ==
    [ i \in 1..n |->
        [ts |-> IF i = n THEN MaxTick * TickSeconds * Second ELSE 0,
         msg |-> TRUE] ]

BulkJournal == BulkJournalOf(BulkLen)

InitBulk ==
    /\ journal = BulkJournal
    /\ cursor_file = None
    /\ cpu_count = CpuCount(0)
    /\ time_period = "all"
    /\ Constructed
    /\ NoSeverityCall
    /\ prev_live = {}
    /\ lifetime = 1
    /\ appends_left = BulkAppend

NextBulk ==
    \/ JournalAppend
    \/ Start
    \/ SupBegin
    \/ SupPoolFails
    \/ Worker
    \/ WorkerSeekFails
    \/ SupTake
    \/ SupPut
    \/ SupFinish
    \/ Poll

SpecBulk == InitBulk /\ [][NextBulk]_vars

(* The same over a history of a little more than one batch of poll() *)
InitBatch ==
    /\ journal = BulkJournalOf(BatchLen)
    /\ cursor_file = None
    /\ cpu_count = CpuCount(0)
    /\ time_period = "all"
    /\ Constructed
    /\ NoSeverityCall
    /\ prev_live = {}
    /\ lifetime = 1
    /\ appends_left = BulkAppend

SpecBatch == InitBatch /\ [][NextBulk]_vars

---------------------------------------------------------------------------
(* The history scan of one lifetime under fair scheduling of the supervisor   *)
(* thread and of the pool workers, over small histories and the large one.    *)
(* poll() and stop() are the caller's: nothing obliges the caller to call them *)
InitBackfill ==
    /\ \/ /\ journal \in JournalsUpTo(BackfillHist)
          /\ cpu_count \in { CpuCount(alloc) : alloc \in 0..MaxCpu }
          /\ time_period \in { "all", "now" }
       \/ /\ journal = BulkJournal
          /\ cpu_count = CpuCount(0)
          /\ time_period = "all"
    /\ cursor_file = None
    /\ Constructed
    /\ NoSeverityCall
    /\ prev_live = {}
    /\ lifetime = 1
    /\ appends_left = 0

NextBackfill ==
    \/ Start
    \/ SupBegin
    \/ SupPoolFails
    \/ Worker
    \/ WorkerSeekFails
    \/ SupTake
    \/ SupPut
    \/ SupFinish
    \/ Poll
    \/ Stop

FairBackfill ==
    /\ WF_vars(SupBegin \/ SupPoolFails)
    /\ WF_vars(Worker \/ WorkerSeekFails)
    /\ WF_vars(SupTake)
    /\ WF_vars(SupPut)
    /\ WF_vars(SupFinish)

SpecBackfill == InitBackfill /\ [][NextBackfill]_vars /\ FairBackfill

---------------------------------------------------------------------------
(* _map_priority_to_severity alone, on the PRIORITY fields of a few entries *)
NoPriority == 0 - 1         \* entry.get('PRIORITY') is None

Priorities == { NoPriority } \cup 0..MaxPriority

(* mutant: priority 3 is not counted as an error *)
MapPriorityToSeverityStrict(priority) ==
    IF priority = NoPriority THEN "INFO"
    ELSE IF priority < 3 THEN "ERROR"
    ELSE IF priority = 4 THEN "WARNING"
    ELSE IF priority <= 6 THEN "INFO"
    ELSE "DEBUG"

(* _map_priority_to_severity *)
MapPriorityToSeverity(priority) ==
    IF priority = NoPriority THEN "INFO"
    ELSE IF priority <= 3 THEN "ERROR"
    ELSE IF priority = 4 THEN "WARNING"
    ELSE IF priority <= 6 THEN "INFO"
    ELSE "DEBUG"

RECURSIVE PrioritySeqs(_)
PrioritySeqs(n) ==
    IF n = 0 THEN { << >> }
    ELSE PrioritySeqs(n - 1) \cup
         { Append(ps, p) : ps \in { q \in PrioritySeqs(n - 1) : Len(q) = n - 1 },
                          p \in Priorities }

InitSeverity ==
    /\ journal = << >>
    /\ cursor_file = None
    /\ cpu_count = CpuCount(0)
    /\ time_period = "all"
    /\ Constructed
    /\ prev_live = {}
    /\ lifetime = 1
    /\ appends_left = 0
    /\ priorities \in PrioritySeqs(MaxPriorities)
    /\ severities = << >>

(* _entry_to_dict: 'severity': _map_priority_to_severity(entry.get('PRIORITY')) *)
MapSeverity ==
    /\ Len(severities) < Len(priorities)
    /\ severities' = Append(severities,
                            MapPriorityToSeverity(priorities[Len(severities) + 1]))
    /\ UNCHANGED << journal, cursor_file, cpu_count, time_period, priorities, failed_chunks, state,
                    journal_open, read_pos, cursor, history_queue, history_done,
                    sup_pc, chunks, chunk_todo, pool_results, cur_res, scan_args,
                    start_len, start_cursor, start_pos, ret_hist, ret_live, prev_live,
                    lifetime, appends_left, faults >>

SpecSeverity == InitSeverity /\ [][MapSeverity]_vars

---------------------------------------------------------------------------
(* The chunk planner alone, on every range of a grid of half seconds *)
PlanTimes == { k * (Second \div 2) : k \in 0..MaxPlanTick }

InitPlanner ==
    /\ NoSeverityCall
    /\ journal = << >>
    /\ cursor_file = None
    /\ cpu_count \in { CpuCount(alloc) : alloc \in 0..PlanMaxCpu }
    /\ time_period = "all"
    /\ state = "created"
    /\ journal_open = FALSE
    /\ read_pos = 0
    /\ cursor = None
    /\ history_queue = << >>
    /\ history_done = FALSE
    /\ sup_pc = "none"
    /\ chunks = << >>
    /\ chunk_todo = {}
    /\ pool_results = << >>
    /\ cur_res = << >>
    /\ scan_args \in PlanTimes \X PlanTimes
    /\ start_len = 0
    /\ start_cursor = None
    /\ start_pos = 0
    /\ ret_hist = << >>
    /\ ret_live = << >>
    /\ faults = {}
    /\ failed_chunks = {}
    /\ prev_live = {}
    /\ lifetime = 1
    /\ appends_left = 0

(* chunk_args = self._create_time_chunks(start_time, end_time) *)
Plan ==
    /\ chunks = << >>
    /\ chunks' = CreateTimeChunks(scan_args[1], scan_args[2], cpu_count)
    /\ UNCHANGED << journal, cursor_file, cpu_count, time_period, priorities, severities, failed_chunks, state,
                    journal_open, read_pos, cursor, history_queue, history_done,
                    sup_pc, chunk_todo, pool_results, cur_res, scan_args, start_len,
                    start_cursor, start_pos, ret_hist, ret_live, prev_live, lifetime,
                    appends_left, faults >>

SpecPlanner == InitPlanner /\ [][Plan]_vars

---------------------------------------------------------------------------
(* Claims *)

NoRepeat(s) == \A i, k \in 1..Len(s) : s[i] = s[k] => i = k

Returned == Range(ret_hist) \cup Range(ret_live)

(* the pool could not be created: the supervisor left without chunk_args *)
PoolFailed == sup_pc = "exit" /\ chunks = << >>

(* nothing is left to deliver: the scan is over, the queue is drained and the *)
(* live reader has read the whole journal                                     *)
Quiescent ==
    /\ state = "started"
    /\ history_done
    /\ history_queue = << >>
    /\ read_pos = Len(journal)

(* C1: in ALL mode with no persisted cursor, no journal entry is returned     *)
(* more than once over all the poll() results, by the queue or by the reader  *)
C1_NoDuplicates ==
    time_period = "all" => NoRepeat(ret_hist \o ret_live)

(* C2: in ALL mode with no persisted cursor, with no failed chunk seek and a  *)
(* pool that was created, once nothing is left to deliver every entry with a  *)
(* message has been returned by some poll()                                   *)
C2_NoLoss ==
    (time_period = "all" /\ Quiescent /\ "seek" \notin faults /\ ~PoolFailed)
        => \A i \in 1..Len(journal) : journal[i].msg => i \in Returned

(* C3: in a lifetime started from a persisted cursor, the live reader resumes *)
(* at that cursor, and no entry a live poll() returned in an earlier lifetime *)
(* is returned by a live poll() again                                         *)
C3_CursorRoundTrip ==
    (lifetime > 1 /\ state = "started")
        => /\ (cursor_file # None /\ "cursor" \notin faults)
                => start_cursor = cursor_file
           /\ Range(ret_live) \cap prev_live = {}

(* C4: the history queue never holds more than 200 events, and while it holds *)
(* 200 the supervisor's put stays pending: the queue changes only by a poll() *)
(* that takes events out                                                      *)
C4_BoundedQueue ==
    /\ [](Len(history_queue) <= QueueMaxSize)
    /\ [][(Len(history_queue) = QueueMaxSize /\ sup_pc = "put")
             => /\ cur_res' = cur_res
                /\ sup_pc' = "put"
                /\ \/ history_queue' = history_queue
                   \/ /\ Len(history_queue') < Len(history_queue)
                      /\ Len(ret_hist') > Len(ret_hist)]_vars

C4_Witness ==
    /\ Len(history_queue) = QueueMaxSize
    /\ sup_pc = "put"
    /\ cur_res # << >>
    /\ ret_hist # << >>

(* C5: in every state the list poll() returns is at most 100 events from the  *)
(* head of the queue, in queue order, followed by the events of all the live  *)
(* entries not read yet, in journal order, and it is empty when there is      *)
(* neither; poll() is enabled when the queue is empty, whatever the           *)
(* supervisor does; the poll step takes exactly those events off the queue    *)
C5_ResultShape ==
    LET res == PollResult(history_queue, journal_open, journal, read_pos)
        hist == HistOf(res)
        live == LiveOf(res)
        unread == IF journal_open
                  THEN { i \in (read_pos + 1)..Len(journal) : journal[i].msg }
                  ELSE {}
    IN  /\ res = Tag("hist", hist) \o Tag("live", live)
        /\ Len(hist) <= HISTORY_BATCH_SIZE
        /\ Len(hist) <= Len(history_queue)
        /\ Len(hist) = HISTORY_BATCH_SIZE \/ Len(hist) = Len(history_queue)
        /\ hist = SubSeq(history_queue, 1, Len(hist))
        /\ \A i \in 1..(Len(live) - 1) : live[i] < live[i + 1]
        /\ Range(live) = unread
        /\ (history_queue = << >> /\ unread = {}) => res = << >>

C5_PollShape ==
    /\ [](C5_ResultShape /\ (history_queue = << >> => ENABLED Poll))
    /\ [][Poll =>
            LET res == PollResult(history_queue, journal_open, journal, read_pos)
            IN  /\ history_queue = HistOf(res) \o history_queue'
                /\ ret_hist' = ret_hist \o HistOf(res)
                /\ ret_live' = ret_live \o LiveOf(res)]_vars

C5_Witness ==
    /\ Len(history_queue) > HISTORY_BATCH_SIZE
    /\ journal_open
    /\ read_pos < Len(journal)
    /\ journal[Len(journal)].msg
    /\ ret_hist # << >>

(* C6: after start() on an empty journal the scan is done, no supervisor was  *)
(* launched, the queue is empty and nothing came from it, and while started   *)
(* the live polls returned exactly the events of the entries read so far, all *)
(* of them appended after start()                                             *)
C6_EmptyJournal ==
    (state # "created" /\ start_len = 0)
        => /\ history_done
           /\ sup_pc = "none"
           /\ history_queue = << >>
           /\ ret_hist = << >>
           /\ state = "started" => ret_live = EventsOf(journal, 1, read_pos)

C6_Witness ==
    /\ state = "started"
    /\ start_len = 0
    /\ time_period = "all"
    /\ ret_live # << >>

(* C7, as claimed: a poll() that iterates at least one live entry leaves the  *)
(* cursor of the last entry iterated in self.cursor, also when that entry     *)
(* gave no event                                                              *)
C7_CursorAdvance ==
    [][(Poll /\ journal_open /\ read_pos < Len(journal))
         => cursor' = Len(journal)]_vars

(* C7, amended: a poll() that iterates at least one live entry leaves in      *)
(* self.cursor the cursor of the last entry iterated that gave an event, and  *)
(* leaves self.cursor as it was when none of them gave one                    *)
C7_CursorOfLastEvent ==
    [][(Poll /\ journal_open /\ read_pos < Len(journal))
         => LET gave == { i \in (read_pos + 1)..Len(journal) : journal[i].msg }
            IN  /\ read_pos' = Len(journal)
                /\ gave = {} => cursor' = cursor
                /\ gave # {} => (cursor' \in gave /\ \A i \in gave : i <= cursor')]_vars

C7_Witness ==
    /\ journal_open
    /\ read_pos = Len(journal)
    /\ read_pos > start_pos + 1
    /\ ret_live # << >>
    /\ ~journal[Len(journal)].msg
    /\ cursor = Len(journal) - 1

(* C8: after start(), with a persisted cursor whose seek succeeded the reader *)
(* is at that cursor (the next entry it yields is the cursor's) and           *)
(* self.cursor is the persisted cursor; otherwise the reader is at the tail,  *)
(* self.cursor is the cursor of the last entry present at start() and no      *)
(* entry present at start() is returned by a live poll()                      *)
C8_LiveTailPositioning ==
    state = "started"
        => IF cursor_file # None /\ "cursor" \notin faults
           THEN /\ start_pos + 1 = cursor_file
                /\ start_cursor = cursor_file
           ELSE /\ start_pos = start_len
                /\ start_cursor = start_len
                /\ \A i \in 1..Len(ret_live) : ret_live[i] > start_len

C8_Witness ==
    /\ state = "started"
    /\ cursor_file # None
    /\ "cursor" \in faults
    /\ ret_live # << >>

(* C9: stop() is enabled in every started state; it leaves in the checkpoint  *)
(* self.cursor, or on a failed write the old content or nothing, closes the   *)
(* live reader and changes neither the queue, nor history_done, nor the       *)
(* supervisor and its workers                                                 *)
C9_StopEffect ==
    /\ [](state = "started" => ENABLED Stop)
    /\ [][(state = "started" /\ state' = "stopped")
             => /\ cursor_file' \in { cursor, cursor_file, None }
                /\ cursor = None => cursor_file' = cursor_file
                /\ ~journal_open'
                /\ cursor' = cursor
                /\ history_queue' = history_queue
                /\ history_done' = history_done
                /\ sup_pc' = sup_pc
                /\ cur_res' = cur_res
                /\ pool_results' = pool_results
                /\ chunk_todo' = chunk_todo]_vars

C9_Witness ==
    /\ state = "stopped"
    /\ cursor # None
    /\ cursor_file = cursor
    /\ ~history_done
    /\ sup_pc = "put"
    /\ ENABLED SupPut

(* C10: for a range of at most 5 seconds and any parallelism, the planner     *)
(* returns exactly one chunk, the range itself                                *)
C10_ShortRange ==
    (chunks # << >> /\ scan_args[2] - scan_args[1] <= 5 * Second)
        => chunks = << scan_args >>

C10_Witness ==
    /\ chunks = << scan_args >>
    /\ scan_args[2] - scan_args[1] = 5 * Second
    /\ cpu_count > 1

(* C11: for a range of more than 5 seconds and parallelism N, the planner     *)
(* returns exactly N chunks; the first starts at start, each chunk ends where *)
(* the next starts, no chunk ends before it starts, and the last ends one     *)
(* second after end, so the chunks cover the range and pass its end           *)
C11_LongRange ==
    (chunks # << >> /\ scan_args[2] - scan_args[1] > 5 * Second)
        => /\ Len(chunks) = cpu_count
           /\ chunks[1][1] = scan_args[1]
           /\ \A i \in 1..(Len(chunks) - 1) : chunks[i][2] = chunks[i + 1][1]
           /\ \A i \in 1..Len(chunks) : chunks[i][1] <= chunks[i][2]
           /\ chunks[Len(chunks)][2] = scan_args[2] + Second
           /\ chunks[Len(chunks)][2] > scan_args[2]

C11_Witness ==
    /\ Len(chunks) > 2
    /\ scan_args[2] - scan_args[1] > 5 * Second
    /\ (scan_args[2] - scan_args[1]) % cpu_count # 0

(* C12: the severity mapping gives a severity for every priority among absent *)
(* and 0..7: ERROR for 0..3, WARNING for 4, INFO for 5..6, DEBUG for 7, INFO  *)
(* for absent, never CRITICAL, and equal priorities get equal severities      *)
C12_SeverityMapping ==
    /\ Len(severities) <= Len(priorities)
    /\ Len(severities) < Len(priorities) => ENABLED MapSeverity
    /\ \A i \in 1..Len(severities) :
          LET p == priorities[i]
              sev == severities[i]
          IN  /\ sev \in { "DEBUG", "INFO", "WARNING", "ERROR" }
              /\ sev # "CRITICAL"
              /\ p = NoPriority => sev = "INFO"
              /\ p \in 0..3 => sev = "ERROR"
              /\ p = 4 => sev = "WARNING"
              /\ p \in 5..6 => sev = "INFO"
              /\ p = 7 => sev = "DEBUG"
    /\ \A i, k \in 1..Len(severities) :
          priorities[i] = priorities[k] => severities[i] = severities[k]

C12_Witness ==
    /\ Len(severities) >= 2
    /\ priorities[1] = 3
    /\ priorities[2] = NoPriority
    /\ severities[1] # severities[2]

(* C13: of the chunks of one planning call, every entry present at start()    *)
(* that has a message and a timestamp in the scan range is emitted by exactly *)
(* one chunk task, also when its timestamp is the boundary of two chunks      *)
C13_ChunksDisjoint ==
    chunks # << >>
        => \A i \in 1..start_len :
             (journal[i].msg /\ scan_args[1] <= journal[i].ts
                            /\ journal[i].ts <= scan_args[2])
                 => Cardinality({ c \in 1..Len(chunks) :
                                    i \in Range(ProcessLogChunk(journal, chunks[c])) }) = 1

(* C14, as claimed: once start() has launched the supervisor, history_done    *)
(* eventually becomes true, whatever the caller does                          *)
C14_BackfillCompletes ==
    (sup_pc # "none") ~> history_done

(* C14, amended: once start() has launched the supervisor, history_done       *)
(* eventually becomes true, provided that whenever the queue is full a poll() *)
(* eventually takes events out of it                                          *)
C14_CompletesWhilePolled ==
    [](QueueFull(history_queue) ~> ~QueueFull(history_queue))
        => ((sup_pc # "none") ~> history_done)

C14_Witness ==
    /\ history_done
    /\ sup_pc = "exit"
    /\ state = "stopped"
    /\ Len(ret_hist) > QueueMaxSize

(* C15: from a state in which history_done is true, no step adds an event to  *)
(* the history queue (the queue only loses events from its head) and          *)
(* history_done stays true; so an empty queue stays empty                     *)
C15_DoneIsFinal ==
    [][history_done
         => /\ history_done'
            /\ Len(history_queue') <= Len(history_queue)
            /\ history_queue' = SubSeq(history_queue,
                                       Len(history_queue) - Len(history_queue') + 1,
                                       Len(history_queue))
            /\ history_queue = << >> => history_queue' = << >>]_vars

C15_Witness ==
    /\ history_done
    /\ sup_pc = "exit"
    /\ chunks # << >>
    /\ history_queue = << >>
    /\ ret_hist # << >>
    /\ state = "stopped"

(* C16: after start(), with first and last the timestamps of the first entry  *)
(* of the scan mode and of the last entry present at start(): if both exist   *)
(* and first < last, the supervisor was launched with that range and          *)
(* history_done was left false for it to set; otherwise no supervisor exists, *)
(* history_done is true and the queue is empty and gave nothing.  In NOW mode *)
(* it is always the second case                                               *)
C16_BackfillAtStart ==
    state # "created"
        => LET at_start == SubSeq(journal, 1, start_len)
               first == IF start_len = 0 THEN NoTime
                        ELSE IF time_period = "now" THEN at_start[start_len].ts
                        ELSE at_start[1].ts
               last == IF start_len = 0 THEN WallClock ELSE at_start[start_len].ts
           IN  /\ IF first # NoTime /\ first < last
                  THEN /\ sup_pc # "none"
                       /\ scan_args = << first, last >>
                       /\ sup_pc = "begin" => ~history_done
                  ELSE /\ sup_pc = "none"
                       /\ history_done
                       /\ history_queue = << >>
                       /\ ret_hist = << >>
               /\ time_period = "now"
                     => /\ sup_pc = "none"
                        /\ history_done
                        /\ history_queue = << >>
                        /\ ret_hist = << >>

C16_Witness ==
    /\ state = "started"
    /\ time_period = "now"
    /\ start_len > 1
    /\ journal[1].ts < journal[start_len].ts
    /\ journal[1].msg
    /\ ret_live # << >>

(* the orders in which the tasks of a set of chunks can complete *)
Orders(S) ==
    { f \in [ 1..Cardinality(S) -> S ] :
        \A a, b \in 1..Cardinality(S) : f[a] = f[b] => a = b }

(* the events of the chunks of an order, one result after the other *)
RECURSIVE ResultsInOrder(_, _, _)
ResultsInOrder(j, cs, order) ==
    IF order = << >> THEN << >>
    ELSE ProcessLogChunk(j, cs[Head(order)]) \o ResultsInOrder(j, cs, Tail(order))

BackgroundStep ==
    \/ SupBegin
    \/ SupPoolFails
    \/ Worker
    \/ WorkerSeekFails
    \/ SupTake
    \/ SupPut
    \/ SupFinish

(* a step of the thread that owns the SystemdSource *)
OwnerStep ==
    \/ Start
    \/ StartSeekCursorFails
    \/ Poll
    \/ Stop
    \/ StopWriteFails
    \/ NewLifetime

(* C18: a step of the supervisor or of a worker leaves self.cursor, the live  *)
(* reader and its position, and the checkpoint as they are; they change only  *)
(* in start(), poll() and stop(); and what stop() writes is self.cursor as    *)
(* start() and poll() left it                                                 *)
C18_CursorSingleOwner ==
    [][/\ BackgroundStep
            => /\ cursor' = cursor
               /\ read_pos' = read_pos
               /\ journal_open' = journal_open
               /\ cursor_file' = cursor_file
       /\ (cursor' # cursor \/ read_pos' # read_pos \/ journal_open' # journal_open
             \/ cursor_file' # cursor_file)
            => OwnerStep
       /\ (Stop /\ cursor # None) => cursor_file' = cursor]_vars

C18_Witness ==
    /\ state = "stopped"
    /\ chunks # << >>
    /\ sup_pc = "exit"
    /\ ret_hist = << >>
    /\ history_queue # << >>
    /\ cursor > start_cursor
    /\ cursor_file = cursor

(* C19: within one lifetime, whatever the scan mode and the persisted cursor, *)
(* no entry is returned both from the history queue and by the live reader,   *)
(* and the history scan emits no entry appended after start()                 *)
C19_BackfillLiveDisjoint ==
    state # "created"
        => /\ Range(ret_hist) \cap Range(ret_live) = {}
           /\ \A e \in Range(ret_hist) \cup Range(history_queue) : e <= start_len

(* C20: after start(), self.cursor is the value start() set or the cursor of  *)
(* an entry whose event a live poll() returned, and every entry with a        *)
(* message that the live reader had before the entry of self.cursor was       *)
(* returned; so it is with the cursor stop() has written                      *)
C20_CursorNotAhead ==
    state # "created"
        => /\ cursor = start_cursor \/ cursor \in Range(ret_live)
           /\ \A i \in (start_pos + 1)..(cursor - 1) :
                 journal[i].msg => i \in Range(ret_live)
           /\ (state = "stopped" /\ cursor_file # None)
                 => \A i \in (start_pos + 1)..(cursor_file - 1) :
                      journal[i].msg => i \in Range(ret_live)

C20_Witness ==
    /\ state = "stopped"
    /\ cursor_file = cursor
    /\ cursor # start_cursor
    /\ cursor \in Range(ret_live)
    /\ cursor > start_pos + 1
    /\ ~journal[start_pos + 1].msg

====
